---- MODULE Spec2Model ----
(***************************************************************************)
(* Configuration, validation and service-health layer of bb-app.           *)
(*                                                                         *)
(*   env-config.js  (src/unnamed/part_000)  EnvironmentConfig singleton    *)
(*   server.js      (src/unnamed/part_001)  connectWithRetry, signal       *)
(*                                          handlers, /health /ready /live *)
(*   seed script    (src/unnamed/part_008)  connectWithRetry               *)
(*                                                                         *)
(* JavaScript strings are TLA+ strings; a character is a string of length  *)
(* one.  A plain object or process.env is a function whose DOMAIN is the   *)
(* set of its own keys.                                                    *)
(***************************************************************************)
EXTENDS Integers, Sequences, FiniteSets, TLC

VARIABLES
    processEnv,      \* process.env of the server process
    fs,              \* files of the working directory: name -> [readable, content]
    pc,              \* position of the server process in its top-level code
    exit,            \* whether the server process has exited, its code and cause
    environment,     \* EnvironmentConfig.environment
    requiredVars,    \* EnvironmentConfig.requiredVars
    secretVars,      \* EnvironmentConfig.secretVars
    config,          \* EnvironmentConfig.config
    validation,      \* outcome of validateConfiguration in the constructor
    sanitized,       \* what getSanitizedConfig last returned
    loads,           \* how many times loadEnvironmentFiles has run on the instance
    secretCall,      \* a call of isInsecureSecret: its arguments and result
    accessCall,      \* a call of get, getInt, getBool or getArray and its result
    validateCall,    \* outcome of validateConfiguration called on the exported instance
    settings,        \* the constants server.js reads from envConfig at start
    listening,       \* app.listen has been called
    readyState,      \* mongoose.connection.readyState of the server
    retry,           \* connectWithRetry of the server: loop position and attempt
    events,          \* what connectWithRetry of the server has done, in order
    shutdown,        \* the signal handler of the server awaiting close()
    health,          \* the GET /health query in hand and its answer
    ready,           \* the GET /ready query in hand and its answer
    live,            \* the answer to the last GET /live
    seedReadyState,  \* mongoose.connection.readyState of the seed script
    seedRetry,       \* connectWithRetry of the seed script
    seedEvents,      \* what connectWithRetry of the seed script has done
    seedShutdown,    \* the signal handler of the seed script awaiting close()
    seedExit         \* whether the seed process has exited, its code and cause

inputVars == <<processEnv, fs>>

instanceVars == <<environment, requiredVars, secretVars, config, validation, sanitized,
                  loads>>

serverVars == <<settings, listening, readyState, retry, events, shutdown, health, ready,
                live>>

seedVars == <<seedReadyState, seedRetry, seedEvents, seedShutdown, seedExit>>

callVars == <<secretCall, accessCall, validateCall>>

vars == <<inputVars, instanceVars, pc, exit, callVars, serverVars, seedVars>>

----------------------------------------------------------------------------
(* String.prototype helpers used by env-config.js *)

At(s, i) == SubSeq(s, i, i)

EmptyObject == [k \in {} |-> ""]

WhiteSpace == {" ", "\t", "\r", "\n"}

LineTerminators == {"\n", "\r"}

RECURSIVE TrimStart(_)
TrimStart(s) ==
    IF Len(s) > 0 /\ At(s, 1) \in WhiteSpace
    THEN TrimStart(SubSeq(s, 2, Len(s)))
    ELSE s

RECURSIVE TrimEnd(_)
TrimEnd(s) ==
    IF Len(s) > 0 /\ At(s, Len(s)) \in WhiteSpace
    THEN TrimEnd(SubSeq(s, 1, Len(s) - 1))
    ELSE s

Trim(s) == TrimEnd(TrimStart(s))

StartsWith(s, p) == Len(p) <= Len(s) /\ SubSeq(s, 1, Len(p)) = p

EndsWith(s, p) == Len(p) <= Len(s) /\ SubSeq(s, Len(s) - Len(p) + 1, Len(s)) = p

\* s.slice(1, -1)
SliceInner(s) == SubSeq(s, 2, Len(s) - 1)

\* index of the first occurrence of character c in s, 0 when there is none
IndexOf(s, c) ==
    LET hits == {i \in 1..Len(s) : At(s, i) = c}
    IN  IF hits = {} THEN 0 ELSE CHOOSE i \in hits : \A j \in hits : i <= j

\* s.split(sep) for a one-character separator
RECURSIVE Split(_, _)
Split(s, sep) ==
    LET i == IndexOf(s, sep)
    IN  IF i = 0 THEN <<s>>
        ELSE <<SubSeq(s, 1, i - 1)>> \o Split(SubSeq(s, i + 1, Len(s)), sep)

UpperLetters == "ABCDEFGHIJKLMNOPQRSTUVWXYZ"

LowerLetters == "abcdefghijklmnopqrstuvwxyz"

LowerChar(c) ==
    LET i == IndexOf(UpperLetters, c)
    IN  IF i = 0 THEN c ELSE At(LowerLetters, i)

RECURSIVE ToLowerCase(_)
ToLowerCase(s) ==
    IF Len(s) = 0 THEN ""
    ELSE LowerChar(At(s, 1)) \o ToLowerCase(SubSeq(s, 2, Len(s)))

\* { ...a, ...b }
ObjectSpread(a, b) ==
    [k \in DOMAIN a \cup DOMAIN b |-> IF k \in DOMAIN b THEN b[k] ELSE a[k]]

\* !obj[key]: the key is absent or holds the empty string
Falsy(obj, key) == key \notin DOMAIN obj \/ obj[key] = ""

----------------------------------------------------------------------------
(* EnvironmentConfig: loading *)

\* line.match(/^([^=]+)=(.*)$/): a key of at least one character before the
\* first "=", and a value holding no line terminator
LineMatches(line) ==
    LET eq == IndexOf(line, "=")
    IN  /\ eq >= 2
        /\ \A i \in (eq + 1)..Len(line) : At(line, i) \notin LineTerminators

MatchKey(line) == SubSeq(line, 1, IndexOf(line, "=") - 1)

MatchValue(line) == SubSeq(line, IndexOf(line, "=") + 1, Len(line))

\* "Remove quotes if present"
CleanValue(value) ==
    LET cleanValue == Trim(value)
    IN  IF \/ StartsWith(cleanValue, "\"") /\ EndsWith(cleanValue, "\"")
           \/ StartsWith(cleanValue, "'") /\ EndsWith(cleanValue, "'")
        THEN SliceInner(cleanValue)
        ELSE cleanValue

\* variant: a key that is already defined collects the later value as well
SetIfAbsent_Accumulates(cfg, cleanKey, cleanValue) ==
    IF cleanKey \notin DOMAIN cfg
    THEN (cleanKey :> cleanValue) @@ cfg
    ELSE [cfg EXCEPT ![cleanKey] = @ \o "," \o cleanValue]

\* "Only set if not already defined (precedence)"
SetIfAbsent(cfg, cleanKey, cleanValue) ==
    IF cleanKey \notin DOMAIN cfg
    THEN (cleanKey :> cleanValue) @@ cfg
    ELSE cfg

\* variant: a well-formed line always assigns its key
ApplyLine_AlwaysAssigns(cfg, rawLine) ==
    LET line == Trim(rawLine)
    IN  IF line = "" \/ StartsWith(line, "#") THEN cfg
        ELSE IF LineMatches(line)
             THEN [k \in DOMAIN cfg \cup {Trim(MatchKey(line))} |->
                      IF k = Trim(MatchKey(line)) THEN CleanValue(MatchValue(line))
                      ELSE cfg[k]]
             ELSE cfg

\* the body of lines.forEach for one line
ApplyLine(cfg, rawLine) ==
    LET line == Trim(rawLine)
    IN  IF line = "" \/ StartsWith(line, "#") THEN cfg
        ELSE IF LineMatches(line)
             THEN SetIfAbsent(cfg, Trim(MatchKey(line)), CleanValue(MatchValue(line)))
             ELSE cfg

\* this.config.hasOwnProperty(cleanKey) is a call of whatever the map holds
\* under "hasOwnProperty": once a line has stored a string there, the call
\* on the next well-formed line throws a TypeError
LineThrows(cfg, rawLine) ==
    LET line == Trim(rawLine)
    IN  /\ line # ""
        /\ ~StartsWith(line, "#")
        /\ LineMatches(line)
        /\ "hasOwnProperty" \in DOMAIN cfg

\* lines.forEach(...) inside the try block: a throw ends the forEach and
\* goes to the catch block, the lines before it stay applied
RECURSIVE ApplyLines(_, _)
ApplyLines(cfg, lines) ==
    IF lines = <<>> THEN cfg
    ELSE IF LineThrows(cfg, Head(lines)) THEN cfg
    ELSE ApplyLines(ApplyLine(cfg, Head(lines)), Tail(lines))

\* loadEnvFile: a read error is caught and leaves the map as it is
loadEnvFile(cfg, file) ==
    IF ~file.readable THEN cfg
    ELSE ApplyLines(cfg, Split(file.content, "\n"))

envFiles(env) == <<".env", ".env." \o env, ".env.local">>

RECURSIVE LoadEach(_, _, _)
LoadEach(cfg, files, names) ==
    IF names = <<>> THEN cfg
    ELSE LoadEach(IF Head(names) \in DOMAIN files
                  THEN loadEnvFile(cfg, files[Head(names)])
                  ELSE cfg,
                  files, Tail(names))

\* variant: the file layers are spread over process.env
loadEnvironmentFiles_FilesOverEnv(cfg, env, files, penv) ==
    ObjectSpread(penv, LoadEach(cfg, files, envFiles(env)))

loadEnvironmentFiles(cfg, env, files, penv) ==
    ObjectSpread(LoadEach(cfg, files, envFiles(env)), penv)

----------------------------------------------------------------------------
(* EnvironmentConfig: validation and the sanitized view *)

MinSecretLength == 16

\* the four regular expressions of isInsecureSecret, all with the i flag:
\* alternatives anchored at the start, and at the end too when exact
insecurePatterns == <<
    [alts |-> {"dev", "development", "test", "staging", "demo"}, exact |-> FALSE],
    [alts |-> {"your-", "change-this", "replace-with", "example"}, exact |-> FALSE],
    [alts |-> {"secret", "password", "key"}, exact |-> TRUE],
    [alts |-> {"123", "abc", "test"}, exact |-> FALSE] >>

\* pattern.test(value)
PatternTest(pattern, value) ==
    \E a \in pattern.alts :
        IF pattern.exact
        THEN ToLowerCase(value) = a
        ELSE StartsWith(ToLowerCase(value), a)

\* variant: the patterns are tested without the i flag
isInsecureSecret_CaseSensitive(key, value) ==
    \/ \E i \in DOMAIN insecurePatterns : \E a \in insecurePatterns[i].alts :
          IF insecurePatterns[i].exact THEN value = a ELSE StartsWith(value, a)
    \/ Len(value) < MinSecretLength

isInsecureSecret(key, value) ==
    \/ \E i \in DOMAIN insecurePatterns : PatternTest(insecurePatterns[i], value)
    \/ Len(value) < MinSecretLength

\* variant: only an absent key counts as missing
MissingKeys_AbsentOnly(cfg, required) == {key \in required : key \notin DOMAIN cfg}

\* if (!this.config[key]) missing.push(key)
MissingKeys(cfg, required) == {key \in required : Falsy(cfg, key)}

\* variant: the secret check runs under every environment label
InsecureKeys_AnyLabel(cfg, env, secrets) ==
    {key \in secrets : ~Falsy(cfg, key) /\ isInsecureSecret(key, cfg[key])}

InsecureKeys(cfg, env, secrets) ==
    IF env = "production"
    THEN {key \in secrets : ~Falsy(cfg, key) /\ isInsecureSecret(key, cfg[key])}
    ELSE {}

\* validateConfiguration: what it collected and which error it threw
validateConfiguration(cfg, env, required, secrets) ==
    LET missing  == MissingKeys(cfg, required)
        insecure == InsecureKeys(cfg, env, secrets)
    IN  [missing  |-> missing,
         insecure |-> insecure,
         threw    |-> IF missing # {} THEN "missing"
                      ELSE IF insecure # {} THEN "insecure"
                      ELSE "none"]

Mask == "***MASKED***"

getSanitizedConfig(cfg, secrets) ==
    [k \in DOMAIN cfg |-> IF k \in secrets /\ cfg[k] # "" THEN Mask ELSE cfg[k]]

\* variant: the masks are written into this.config itself
ConfigAfterSanitizing_InPlace(cfg, secrets) == getSanitizedConfig(cfg, secrets)

\* const sanitized = { ...this.config }: the masks go into the copy and
\* this.config is left as it was
ConfigAfterSanitizing(cfg, secrets) == cfg

DefaultSecretVars == {"SESSION_SECRET", "JWT_SECRET", "MONGODB_URI"}

AppRequiredVars == {"NODE_ENV", "PORT", "MONGODB_URI"}

AppSecretVars == {"SESSION_SECRET", "JWT_SECRET", "MONGODB_URI"}

\* process.env.NODE_ENV || 'development'
EnvironmentLabel(penv) ==
    IF Falsy(penv, "NODE_ENV") THEN "development" ELSE penv["NODE_ENV"]

NotValidated == [missing |-> {}, insecure |-> {}, threw |-> "not run"]

NotCalled == [called |-> FALSE, view |-> EmptyObject]

Running == [exited |-> FALSE, code |-> 0, by |-> "none"]

NoSecretCall == [key |-> "", value |-> "", done |-> FALSE, insecure |-> FALSE]

NoQuery == [state |-> "idle", dbState |-> 0, ping |-> "none", code |-> 0, status |-> ""]

RetryIdle == [state |-> "idle", attempt |-> 0]

----------------------------------------------------------------------------
(* EnvironmentConfig: the typed accessors                                  *)
(*                                                                         *)
(* A JavaScript value is a record tagged with its type; the fields that do *)
(* not belong to the type hold a fixed filler.                             *)

JsValue(type, str, num, bool, list) ==
    [type |-> type, str |-> str, num |-> num, bool |-> bool, list |-> list]

Undefined == JsValue("undefined", "", 0, FALSE, <<>>)

NaN == JsValue("NaN", "", 0, FALSE, <<>>)

Str(s) == JsValue("string", s, 0, FALSE, <<>>)

Num(n) == JsValue("number", "", n, FALSE, <<>>)

Bool(b) == JsValue("boolean", "", 0, b, <<>>)

Arr(l) == JsValue("array", "", 0, FALSE, l)

DecimalDigits == "0123456789"

IsDigit(c) == IndexOf(DecimalDigits, c) # 0

DigitValue(c) == IndexOf(DecimalDigits, c) - 1

\* the decimal numeral of a natural number
RECURSIVE NaturalToString(_)
NaturalToString(n) ==
    IF n < 10 THEN At(DecimalDigits, n + 1)
    ELSE NaturalToString(n \div 10) \o At(DecimalDigits, (n % 10) + 1)

RECURSIVE Join(_, _)
Join(l, sep) ==
    IF l = <<>> THEN ""
    ELSE IF Len(l) = 1 THEN Head(l)
    ELSE Head(l) \o sep \o Join(Tail(l), sep)

\* ToString of the language, which parseInt applies to its argument
JsToString(v) ==
    CASE v.type = "string"    -> v.str
      [] v.type = "number"    -> IF v.num < 0 THEN "-" \o NaturalToString(0 - v.num)
                                 ELSE NaturalToString(v.num)
      [] v.type = "boolean"   -> IF v.bool THEN "true" ELSE "false"
      [] v.type = "NaN"       -> "NaN"
      [] v.type = "array"     -> Join(v.list, ",")
      [] v.type = "undefined" -> "undefined"

\* the longest prefix of s made of decimal digits
RECURSIVE DigitPrefix(_)
DigitPrefix(s) ==
    IF Len(s) > 0 /\ IsDigit(At(s, 1))
    THEN At(s, 1) \o DigitPrefix(SubSeq(s, 2, Len(s)))
    ELSE ""

\* the number a non-empty string of decimal digits denotes
RECURSIVE DigitsValue(_)
DigitsValue(d) ==
    IF Len(d) = 0 THEN 0
    ELSE 10 * DigitsValue(SubSeq(d, 1, Len(d) - 1)) + DigitValue(At(d, Len(d)))

\* parseInt(value, 10): leading white space is skipped, a sign is read, then
\* the longest run of digits; what follows the digits is ignored, and NaN is
\* the result when there is no digit
parseInt(v) ==
    LET s      == TrimStart(JsToString(v))
        signed == Len(s) > 0 /\ At(s, 1) \in {"+", "-"}
        rest   == IF signed THEN SubSeq(s, 2, Len(s)) ELSE s
        digits == DigitPrefix(rest)
    IN  IF digits = "" THEN NaN
        ELSE IF signed /\ At(s, 1) = "-" THEN Num(0 - DigitsValue(digits))
        ELSE Num(DigitsValue(digits))

\* what a call gives back: a value, or the TypeError it throws
Returns(v) == [threw |-> "none", value |-> v]

Throws(error) == [threw |-> error, value |-> Undefined]

\* get(key, defaultValue = undefined)
get(cfg, key, defaultValue) ==
    IF key \in DOMAIN cfg THEN Str(cfg[key]) ELSE defaultValue

\* getInt(key, defaultValue = undefined)
getInt(cfg, key, defaultValue) ==
    LET value == get(cfg, key, defaultValue)
    IN  IF value # Undefined THEN Returns(parseInt(value)) ELSE Returns(Undefined)

\* getBool(key, defaultValue = undefined): value.toLowerCase is a function
\* only when value is a string
getBool(cfg, key, defaultValue) ==
    LET value == get(cfg, key, defaultValue)
    IN  IF value = Undefined THEN Returns(defaultValue)
        ELSE IF value.type # "string" THEN Throws("TypeError")
        ELSE Returns(Bool(ToLowerCase(value.str) = "true" \/ value.str = "1"))

RECURSIVE TrimEach(_)
TrimEach(items) ==
    IF items = <<>> THEN <<>>
    ELSE <<Trim(Head(items))>> \o TrimEach(Tail(items))

NonEmpty(item) == item # ""

\* variant: the empty elements are kept
getArray_KeepsEmpty(cfg, key, defaultValue) ==
    LET value == get(cfg, key, Undefined)
    IN  IF value = Undefined \/ value.str = "" THEN Returns(defaultValue)
        ELSE Returns(Arr(TrimEach(Split(value.str, ","))))

\* getArray(key, defaultValue = [])
getArray(cfg, key, defaultValue) ==
    LET value == get(cfg, key, Undefined)
    IN  IF value = Undefined \/ value.str = "" THEN Returns(defaultValue)
        ELSE Returns(Arr(SelectSeq(TrimEach(Split(value.str, ",")), NonEmpty)))

NoAccessCall ==
    [method |-> "none", key |-> "", defaultValue |-> Undefined, result |-> Returns(Undefined)]

NoSettings ==
    [read |-> FALSE, enableRequestLogging |-> Undefined, corsOrigins |-> Undefined,
     mongoUri |-> Undefined, dbMaxPoolSize |-> Undefined,
     dbServerSelectionTimeout |-> Undefined, dbSocketTimeout |-> Undefined]

----------------------------------------------------------------------------
(* Module load of env-config.js *)

\* variant: the error of the constructor is caught and the module loads
PositionAfterConstructor_ErrorCaught(outcome) == "constructed"

\* validateConfiguration throws out of the constructor and out of
\* require('./env-config'): server.js goes on only when nothing was thrown
PositionAfterConstructor(outcome) ==
    IF outcome.threw = "none" THEN "constructed" ELSE "crashed"

\* new EnvironmentConfig(): a throw of validateConfiguration leaves the
\* module unloaded and the process dies of the uncaught exception
Construct ==
    /\ pc = "start"
    /\ environment' = EnvironmentLabel(processEnv)
    /\ requiredVars' = {}
    /\ secretVars' = DefaultSecretVars
    /\ config' = loadEnvironmentFiles(EmptyObject, environment', fs, processEnv)
    /\ validation' = validateConfiguration(config', environment', requiredVars', secretVars')
    /\ pc' = PositionAfterConstructor(validation')
    /\ exit' = IF validation'.threw = "none" THEN exit
               ELSE [exited |-> TRUE, code |-> 1, by |-> "config"]
    /\ loads' = 1
    /\ UNCHANGED <<inputVars, sanitized, callVars, serverVars, seedVars>>

\* envConfig.require('NODE_ENV', 'PORT', 'MONGODB_URI').secrets(...)
RegisterVars ==
    /\ pc = "constructed"
    /\ requiredVars' = requiredVars \cup AppRequiredVars
    /\ secretVars' = secretVars \cup AppSecretVars
    /\ pc' = "registered"
    /\ UNCHANGED <<inputVars, environment, config, validation, sanitized, loads>>
    /\ UNCHANGED <<exit, callVars, serverVars, seedVars>>

\* if (process.env.NODE_ENV !== 'test') envConfig.logConfiguration()
LogConfiguration ==
    /\ pc = "registered"
    /\ sanitized' =
         IF /\ ("NODE_ENV" \notin DOMAIN processEnv \/ processEnv["NODE_ENV"] # "test")
            /\ "LOG_LEVEL" \in DOMAIN processEnv
            /\ processEnv["LOG_LEVEL"] = "debug"
         THEN [called |-> TRUE, view |-> getSanitizedConfig(config, secretVars)]
         ELSE sanitized
    /\ config' = IF sanitized' # sanitized
                 THEN ConfigAfterSanitizing(config, secretVars)
                 ELSE config
    /\ pc' = "configured"
    /\ UNCHANGED <<inputVars, environment, requiredVars, secretVars, validation, loads>>
    /\ UNCHANGED <<exit, callVars, serverVars, seedVars>>

\* a caller of the exported instance asks for the sanitized view
GetSanitizedConfig ==
    /\ pc = "configured"
    /\ sanitized' = [called |-> TRUE, view |-> getSanitizedConfig(config, secretVars)]
    /\ config' = ConfigAfterSanitizing(config, secretVars)
    /\ UNCHANGED <<inputVars, environment, requiredVars, secretVars, validation, loads>>
    /\ UNCHANGED <<pc, exit, callVars, serverVars, seedVars>>

MaxLoads == 2

\* a caller runs loadEnvironmentFiles() on the exported instance again, with
\* the files and process.env as they were
LoadEnvironmentFilesAgain ==
    /\ pc = "configured"
    /\ loads < MaxLoads
    /\ config' = loadEnvironmentFiles(config, environment, fs, processEnv)
    /\ loads' = loads + 1
    /\ UNCHANGED <<inputVars, environment, requiredVars, secretVars, validation, sanitized>>
    /\ UNCHANGED <<pc, exit, callVars, serverVars, seedVars>>

\* a caller runs validateConfiguration() on the exported instance, after
\* require() and secrets() have registered their keys; what it throws goes
\* to that caller
ValidateConfigurationCall ==
    /\ pc = "configured"
    /\ validateCall' = validateConfiguration(config, environment, requiredVars, secretVars)
    /\ UNCHANGED <<inputVars, instanceVars, pc, exit, secretCall, accessCall>>
    /\ UNCHANGED <<serverVars, seedVars>>

----------------------------------------------------------------------------
(* Inputs of the configuration specification *)

File(text) == [readable |-> TRUE, content |-> text]

Unreadable == [readable |-> FALSE, content |-> ""]

NoFile == [n \in {} |-> Unreadable]

BaseFiles == {
    NoFile,
    ".env" :> File("# defaults\nPORT=3000\nNODE_ENV=development\n"),
    ".env" :> File("PORT=3000\nJWT_SECRET=\"dev-secret\"\nnot a pair\nPORT=3001\n"),
    ".env" :> File("not a pair\nhasOwnProperty=1\nAPI_BASE_URL=http://localhost:3000\n"),
    ".env" :> Unreadable }

DevelopmentFiles == {
    NoFile,
    ".env.development" :> File("PORT=4000\r\nLOG_LEVEL = 'debug'\r\n"),
    ".env.development" :> File("MONGODB_URI=mongodb://localhost:27017/bb-db\n=orphan\nCORS_ORIGINS=\"\nLOG_FORMAT=\"json'\n") }

ProductionFiles == {
    NoFile,
    ".env.production" :> File("PORT=4000\nJWT_SECRET=your-secret-here\n"),
    ".env.production" :> File("PORT=4500\nSESSION_SECRET=f3a9c1e7b5d2468091a7c3e5b9d1f204\n") }

LocalFiles == {
    NoFile,
    ".env.local" :> File("PORT=6000\nJWT_SECRET=f3a9c1e7b5d2468091a7c3e5b9d1f204\n"),
    ".env.local" :> File("  SESSION_SECRET = \"changeme\"  \n\n# local\nAPI_BASE_URL=http://localhost:3000\nNODE_ENV=production"),
    ".env.local" :> Unreadable }

ConfigFileSystems ==
    {b @@ d @@ p @@ l : b \in BaseFiles, d \in DevelopmentFiles,
                        p \in ProductionFiles, l \in LocalFiles}

ConfigEnvironments == {
    EmptyObject,
    "PORT" :> "5000",
    ("NODE_ENV" :> "") @@ ("LOG_LEVEL" :> "debug"),
    ("NODE_ENV" :> "test") @@ ("LOG_LEVEL" :> "debug") @@ ("JWT_SECRET" :> "test"),
    ("NODE_ENV" :> "development") @@ ("PORT" :> "5000") @@ ("JWT_SECRET" :> "dev-secret"),
    ("NODE_ENV" :> "production") @@ ("PORT" :> "5000")
        @@ ("MONGODB_URI" :> "mongodb://mongo:27017/bb-db")
        @@ ("JWT_SECRET" :> "f3a9c1e7b5d2468091a7c3e5b9d1f204"),
    ("NODE_ENV" :> "production") @@ ("JWT_SECRET" :> "your-secret-here"),
    ("NODE_ENV" :> "production") @@ ("LOG_LEVEL" :> "debug")
        @@ ("SESSION_SECRET" :> "f3a9c1e7b5d2468091a7c3e5b9d1f204")
        @@ ("SESSION_BACKUP" :> "f3a9c1e7b5d2468091a7c3e5b9d1f204") }

\* the configuration instance before its construction
InstanceInitial ==
    /\ environment = ""
    /\ requiredVars = {}
    /\ secretVars = {}
    /\ config = EmptyObject
    /\ validation = NotValidated
    /\ sanitized = NotCalled
    /\ loads = 0
    /\ secretCall = NoSecretCall
    /\ accessCall = NoAccessCall
    /\ validateCall = NotValidated

\* the server process before its first statement
ServerInitial ==
    /\ pc = "start"
    /\ exit = Running
    /\ settings = NoSettings
    /\ listening = FALSE
    /\ readyState = 0
    /\ retry = RetryIdle
    /\ events = <<>>
    /\ shutdown = "none"
    /\ health = NoQuery
    /\ ready = NoQuery
    /\ live = NoQuery

\* the seed process before its first statement
SeedInitial ==
    /\ seedReadyState = 0
    /\ seedRetry = RetryIdle
    /\ seedEvents = <<>>
    /\ seedShutdown = "none"
    /\ seedExit = Running

InitConfig ==
    /\ processEnv \in ConfigEnvironments
    /\ fs \in ConfigFileSystems
    /\ InstanceInitial
    /\ ServerInitial
    /\ SeedInitial

NextConfig ==
    \/ Construct
    \/ RegisterVars
    \/ LogConfiguration
    \/ GetSanitizedConfig
    \/ LoadEnvironmentFilesAgain
    \/ ValidateConfigurationCall

SpecConfig == InitConfig /\ [][NextConfig]_vars

----------------------------------------------------------------------------
(* server.js: connectWithRetry and process exit *)

maxRetries == 10

Event(kind, n) == [kind |-> kind, n |-> n]

\* for (...; attempt <= maxRetries; ...)
LoopContinues(attempt) == attempt <= maxRetries

\* variant: the last attempt is taken to be the one before maxRetries
LastAttempt_OneEarly(attempt) == attempt = maxRetries - 1

\* if (attempt === maxRetries)
LastAttempt(attempt) == attempt = maxRetries

\* variant: the rejection is logged and the process keeps running
ExitOnRejection_LogOnly == [exited |-> FALSE, code |-> 0, by |-> "none"]

\* connectWithRetry().catch(error => { ...; process.exit(1); })
ExitOnRejection == [exited |-> TRUE, code |-> 1, by |-> "retry"]

Alive == pc = "running" /\ ~exit.exited

\* the constants the top-level code reads from envConfig before it defines
\* connectWithRetry; an accessor that throws ends the process with an
\* uncaught exception
ReadSettings ==
    /\ pc = "configured"
    /\ LET enableRequestLogging == getBool(config, "ENABLE_REQUEST_LOGGING", Bool(TRUE))
       IN  IF enableRequestLogging.threw # "none"
           THEN /\ pc' = "crashed"
                /\ exit' = [exited |-> TRUE, code |-> 1, by |-> "settings"]
                /\ settings' = settings
           ELSE /\ pc' = "settings"
                /\ exit' = exit
                /\ settings' =
                     [read |-> TRUE,
                      enableRequestLogging |-> enableRequestLogging.value,
                      corsOrigins |->
                          getArray(config, "CORS_ORIGINS",
                                   Arr(<<"http://localhost:3001">>)).value,
                      mongoUri |-> get(config, "MONGODB_URI", Undefined),
                      dbMaxPoolSize |-> getInt(config, "DB_MAX_POOL_SIZE", Num(10)).value,
                      dbServerSelectionTimeout |->
                          getInt(config, "DB_SERVER_SELECTION_TIMEOUT", Num(5000)).value,
                      dbSocketTimeout |->
                          getInt(config, "DB_SOCKET_TIMEOUT", Num(45000)).value]
    /\ UNCHANGED <<inputVars, instanceVars, callVars, seedVars>>
    /\ UNCHANGED <<listening, readyState, retry, events, shutdown, health, ready, live>>

\* connectWithRetry() is called: the loop starts and the first
\* mongoose.connect is issued before the call returns its promise
StartConnectWithRetry ==
    /\ pc = "settings"
    /\ pc' = "connecting"
    /\ retry' = [state |-> "attempting", attempt |-> 1]
    /\ readyState' = 2
    /\ events' = <<Event("attempt", 1)>>
    /\ UNCHANGED <<inputVars, instanceVars, exit, callVars, seedVars>>
    /\ UNCHANGED <<settings, listening, shutdown, health, ready, live>>

\* a port app.listen accepts
PortValid(port) == port.type = "number" /\ port.num \in 0..65535

\* app.listen(port, host, ...), the last statement of the top-level code,
\* and its callback.  listen throws on a port that is not valid; the
\* callback throws at mongoUri.replace when MONGODB_URI is undefined.  Both
\* are uncaught and end the process.
Listen ==
    /\ pc = "connecting"
    /\ pc' = "running"
    /\ LET port == getInt(config, "PORT", Num(3000)).value
       IN  IF ~PortValid(port)
           THEN /\ listening' = FALSE
                /\ exit' = [exited |-> TRUE, code |-> 1, by |-> "listen"]
           ELSE /\ listening' = TRUE
                /\ exit' = IF settings.mongoUri = Undefined
                           THEN [exited |-> TRUE, code |-> 1, by |-> "listen callback"]
                           ELSE exit
    /\ UNCHANGED <<inputVars, instanceVars, callVars, seedVars>>
    /\ UNCHANGED <<settings, readyState, retry, events, shutdown, health, ready, live>>

\* variant: the `return` after a successful connect is missing and the loop
\* goes on to its next turn
AttemptSucceeds_KeepsRetrying ==
    /\ Alive
    /\ retry.state = "attempting"
    /\ retry' = [retry EXCEPT !.state = IF LastAttempt(retry.attempt)
                                        THEN "resolved" ELSE "waiting"]
    /\ readyState' = 1
    /\ events' = Append(events, Event("connected", retry.attempt))
    /\ UNCHANGED <<inputVars, instanceVars, pc, exit, callVars, seedVars>>
    /\ UNCHANGED <<settings, listening, shutdown, health, ready, live>>

\* await mongoose.connect(...) resolves: return
AttemptSucceeds ==
    /\ Alive
    /\ retry.state = "attempting"
    /\ retry' = [retry EXCEPT !.state = "resolved"]
    /\ readyState' = 1
    /\ events' = Append(events, Event("connected", retry.attempt))
    /\ UNCHANGED <<inputVars, instanceVars, pc, exit, callVars, seedVars>>
    /\ UNCHANGED <<settings, listening, shutdown, health, ready, live>>

\* await mongoose.connect(...) rejects: the catch block, and for the last
\* attempt the throw, the .catch of the call and process.exit(1)
AttemptFails ==
    /\ Alive
    /\ retry.state = "attempting"
    /\ readyState' = 0
    /\ IF LastAttempt(retry.attempt)
       THEN /\ retry' = [retry EXCEPT !.state = "rejected"]
            /\ events' = Append(events, Event("failed", retry.attempt))
            /\ exit' = ExitOnRejection
       ELSE /\ retry' = [retry EXCEPT !.state = "waiting"]
            /\ events' = events \o <<Event("failed", retry.attempt),
                                     Event("wait", retry.attempt)>>
            /\ exit' = exit
    /\ UNCHANGED <<inputVars, instanceVars, pc, callVars, seedVars>>
    /\ UNCHANGED <<settings, listening, shutdown, health, ready, live>>

\* the setTimeout of the wait fires: attempt++, the loop test, the next
\* mongoose.connect (or the end of the loop and of the function)
RetryTimerFires ==
    /\ Alive
    /\ retry.state = "waiting"
    /\ IF LoopContinues(retry.attempt + 1)
       THEN /\ retry' = [state |-> "attempting", attempt |-> retry.attempt + 1]
            /\ readyState' = 2
            /\ events' = Append(events, Event("attempt", retry.attempt + 1))
       ELSE /\ retry' = [state |-> "resolved", attempt |-> retry.attempt + 1]
            /\ UNCHANGED <<settings, readyState, events>>
    /\ UNCHANGED <<inputVars, instanceVars, pc, exit, callVars, seedVars>>
    /\ UNCHANGED <<settings, listening, shutdown, health, ready, live>>

\* the established connection drops ('disconnected')
ConnectionLost ==
    /\ Alive
    /\ readyState = 1
    /\ readyState' = 0
    /\ UNCHANGED <<inputVars, instanceVars, pc, exit, callVars, seedVars>>
    /\ UNCHANGED <<settings, listening, retry, events, shutdown, health, ready, live>>

\* the driver re-establishes a connection that had been made ('connected')
ConnectionRestored ==
    /\ Alive
    /\ readyState = 0
    /\ retry.state = "resolved"
    /\ shutdown = "none"
    /\ readyState' = 1
    /\ UNCHANGED <<inputVars, instanceVars, pc, exit, callVars, seedVars>>
    /\ UNCHANGED <<settings, listening, retry, events, shutdown, health, ready, live>>

\* variant: the retry loop blocks the process, and a signal is taken only
\* when no attempt is in flight and no wait is under way
Signal_BlockedByRetry ==
    /\ Alive
    /\ retry.state \notin {"attempting", "waiting"}
    /\ shutdown = "none"
    /\ shutdown' = "closing"
    /\ readyState' = IF readyState = 1 THEN 3 ELSE readyState
    /\ UNCHANGED <<inputVars, instanceVars, pc, exit, callVars, seedVars>>
    /\ UNCHANGED <<settings, listening, retry, events, health, ready, live>>

\* SIGTERM or SIGINT: the handler calls mongoose.connection.close()
Signal ==
    /\ Alive
    /\ shutdown = "none"
    /\ shutdown' = "closing"
    /\ readyState' = IF readyState = 1 THEN 3 ELSE readyState
    /\ UNCHANGED <<inputVars, instanceVars, pc, exit, callVars, seedVars>>
    /\ UNCHANGED <<settings, listening, retry, events, health, ready, live>>

\* await mongoose.connection.close() resolves: process.exit(0)
CloseResolves ==
    /\ Alive
    /\ shutdown = "closing"
    /\ shutdown' = "closed"
    /\ readyState' = 0
    /\ exit' = [exited |-> TRUE, code |-> 0, by |-> "signal"]
    /\ UNCHANGED <<inputVars, instanceVars, pc, callVars, seedVars>>
    /\ UNCHANGED <<settings, listening, retry, events, health, ready, live>>

\* await mongoose.connection.close() rejects: process.exit(1)
CloseRejects ==
    /\ Alive
    /\ shutdown = "closing"
    /\ shutdown' = "failed"
    /\ exit' = [exited |-> TRUE, code |-> 1, by |-> "signal"]
    /\ UNCHANGED <<inputVars, instanceVars, pc, callVars, seedVars>>
    /\ UNCHANGED <<settings, listening, readyState, retry, events, health, ready, live>>

----------------------------------------------------------------------------
(* server.js: GET /health, GET /ready, GET /live *)

\* variant: the wait between attempts is a blocking sleep and an attempt is
\* awaited by the whole process, so no request is taken meanwhile
Serving_BlockedByRetry ==
    Alive /\ listening /\ retry.state \notin {"attempting", "waiting"}

\* the event loop takes requests: `await mongoose.connect` and
\* `await new Promise(resolve => setTimeout(resolve, retryDelay))` suspend
\* connectWithRetry only
Serving == Alive /\ listening

\* variant: a failed ping leaves the status as it was initialised
HealthStatus_IgnoresPing(dbState, ping) ==
    IF dbState = 1 THEN "healthy" ELSE "unhealthy"

\* healthStatus.status after the database check
HealthStatus(dbState, ping) ==
    IF dbState = 1
    THEN IF ping = "ok" THEN "healthy" ELSE "unhealthy"
    ELSE "unhealthy"

\* res.status(statusCode).json(healthStatus)
HealthAnswer(dbState, ping) ==
    [state   |-> "answered",
     dbState |-> dbState,
     ping    |-> ping,
     code    |-> IF HealthStatus(dbState, ping) = "healthy" THEN 200 ELSE 503,
     status  |-> HealthStatus(dbState, ping)]

\* the catch block of GET /health: res.status(503).json({ status:
\* 'unhealthy', ... }); no ping was issued
HealthError(dbState) ==
    [state |-> "answered", dbState |-> dbState, ping |-> "none",
     code |-> 503, status |-> "unhealthy"]

\* GET /health up to the first await: the snapshot is built, which throws
\* into the catch block when process.memoryUsage() fails; readyState is
\* read, and the ping is issued when it is 1; in every other state the
\* answer is sent at once
HealthQuery ==
    /\ Serving
    /\ health.state # "pinging"
    /\ \E threw \in BOOLEAN :
          health' = IF threw
                    THEN HealthError(readyState)
                    ELSE IF readyState = 1
                    THEN [state |-> "pinging", dbState |-> readyState, ping |-> "sent",
                          code |-> 0, status |-> ""]
                    ELSE HealthAnswer(readyState, "none")
    /\ UNCHANGED <<inputVars, instanceVars, pc, exit, callVars, seedVars>>
    /\ UNCHANGED <<settings, listening, readyState, retry, events, shutdown, ready, live>>

\* the ping of GET /health resolves or rejects, and the answer is sent
HealthPingSettles ==
    /\ Serving
    /\ health.state = "pinging"
    /\ \E outcome \in {"ok", "failed"} :
          health' = HealthAnswer(health.dbState, outcome)
    /\ UNCHANGED <<inputVars, instanceVars, pc, exit, callVars, seedVars>>
    /\ UNCHANGED <<settings, listening, readyState, retry, events, shutdown, ready, live>>

\* variant: readiness is the connection state alone
ReadyStatusCode_StateOnly(dbState, ping) ==
    IF dbState = 1 THEN 200 ELSE 503

\* the status code GET /ready answers with
ReadyStatusCode(dbState, ping) ==
    IF dbState = 1
    THEN IF ping = "ok" THEN 200 ELSE 503
    ELSE 503

ReadyAnswer(dbState, ping) ==
    [state   |-> "answered",
     dbState |-> dbState,
     ping    |-> ping,
     code    |-> ReadyStatusCode(dbState, ping),
     status  |-> IF ReadyStatusCode(dbState, ping) = 200 THEN "ready" ELSE "not ready"]

\* variant: an answer of 200 is kept and given again without a look at the
\* connection
ReadyQuery_Cached ==
    /\ Serving
    /\ ready.state # "pinging"
    /\ ready' = IF ready.state = "answered" /\ ready.code = 200
                THEN ReadyAnswer(ready.dbState, ready.ping)
                ELSE IF readyState = 1
                THEN [state |-> "pinging", dbState |-> readyState, ping |-> "sent",
                      code |-> 0, status |-> ""]
                ELSE ReadyAnswer(readyState, "none")
    /\ UNCHANGED <<inputVars, instanceVars, pc, exit, callVars, seedVars>>
    /\ UNCHANGED <<settings, listening, readyState, retry, events, shutdown, health, live>>

\* GET /ready up to the first await
ReadyQuery ==
    /\ Serving
    /\ ready.state # "pinging"
    /\ ready' = IF readyState = 1
                THEN [state |-> "pinging", dbState |-> readyState, ping |-> "sent",
                      code |-> 0, status |-> ""]
                ELSE ReadyAnswer(readyState, "none")
    /\ UNCHANGED <<inputVars, instanceVars, pc, exit, callVars, seedVars>>
    /\ UNCHANGED <<settings, listening, readyState, retry, events, shutdown, health, live>>

\* variant: the handler has no catch block, and a rejected ping is an
\* unhandled rejection that ends the process with no answer sent
ReadyPingSettles_Uncaught ==
    /\ Serving
    /\ ready.state = "pinging"
    /\ \E outcome \in {"ok", "failed"} :
          IF outcome = "ok"
          THEN ready' = ReadyAnswer(ready.dbState, outcome) /\ exit' = exit
          ELSE /\ ready' = [ready EXCEPT !.ping = "failed"]
               /\ exit' = [exited |-> TRUE, code |-> 1, by |-> "unhandled rejection"]
    /\ UNCHANGED <<inputVars, instanceVars, pc, callVars, seedVars>>
    /\ UNCHANGED <<settings, listening, readyState, retry, events, shutdown, health, live>>

\* the ping of GET /ready resolves, or rejects into the catch block
ReadyPingSettles ==
    /\ Serving
    /\ ready.state = "pinging"
    /\ \E outcome \in {"ok", "failed"} :
          ready' = ReadyAnswer(ready.dbState, outcome)
    /\ UNCHANGED <<inputVars, instanceVars, pc, exit, callVars, seedVars>>
    /\ UNCHANGED <<settings, listening, readyState, retry, events, shutdown, health, live>>

\* variant: liveness follows the database connection, as readiness does
LiveAnswer_FollowsConnection ==
    [state |-> "answered", dbState |-> readyState, ping |-> "none",
     code |-> IF readyState = 1 THEN 200 ELSE 503,
     status |-> IF readyState = 1 THEN "alive" ELSE "not alive"]

\* res.status(200).json({ status: 'alive', ... }); the handler reads no
\* connection state: dbState only records the state the answer was given in
LiveAnswer ==
    [state |-> "answered", dbState |-> readyState, ping |-> "none",
     code |-> 200, status |-> "alive"]

\* GET /live
LiveQuery ==
    /\ Serving
    /\ live' = LiveAnswer
    /\ UNCHANGED <<inputVars, instanceVars, pc, exit, callVars, seedVars>>
    /\ UNCHANGED <<settings, listening, readyState, retry, events, shutdown, health, ready>>

----------------------------------------------------------------------------
(* The seed script: connectWithRetry, seedData, signal handlers *)

seedMaxRetries == 15

SeedAlive == ~seedExit.exited

\* connectWithRetry() of the seed script is called
SeedStart ==
    /\ SeedAlive
    /\ seedRetry.state = "idle"
    /\ seedRetry' = [state |-> "attempting", attempt |-> 1]
    /\ seedReadyState' = 2
    /\ seedEvents' = <<Event("attempt", 1)>>
    /\ UNCHANGED <<inputVars, instanceVars, pc, exit, callVars, serverVars>>
    /\ UNCHANGED <<seedShutdown, seedExit>>

\* await mongoose.connect(...) resolves: return
SeedAttemptSucceeds ==
    /\ SeedAlive
    /\ seedRetry.state = "attempting"
    /\ seedRetry' = [seedRetry EXCEPT !.state = "resolved"]
    /\ seedReadyState' = 1
    /\ seedEvents' = Append(seedEvents, Event("connected", seedRetry.attempt))
    /\ UNCHANGED <<inputVars, instanceVars, pc, exit, callVars, serverVars>>
    /\ UNCHANGED <<seedShutdown, seedExit>>

\* await mongoose.connect(...) rejects: the catch block, with
\* process.exit(1) when attempt === maxRetries
SeedAttemptFails ==
    /\ SeedAlive
    /\ seedRetry.state = "attempting"
    /\ seedReadyState' = 0
    /\ IF seedRetry.attempt = seedMaxRetries
       THEN /\ seedRetry' = [seedRetry EXCEPT !.state = "rejected"]
            /\ seedEvents' = Append(seedEvents, Event("failed", seedRetry.attempt))
            /\ seedExit' = [exited |-> TRUE, code |-> 1, by |-> "retry"]
       ELSE /\ seedRetry' = [seedRetry EXCEPT !.state = "waiting"]
            /\ seedEvents' = seedEvents \o <<Event("failed", seedRetry.attempt),
                                             Event("wait", seedRetry.attempt)>>
            /\ seedExit' = seedExit
    /\ UNCHANGED <<inputVars, instanceVars, pc, exit, callVars, serverVars>>
    /\ UNCHANGED <<seedShutdown>>

\* the setTimeout of the wait fires
SeedTimerFires ==
    /\ SeedAlive
    /\ seedRetry.state = "waiting"
    /\ IF seedRetry.attempt + 1 <= seedMaxRetries
       THEN /\ seedRetry' = [state |-> "attempting", attempt |-> seedRetry.attempt + 1]
            /\ seedReadyState' = 2
            /\ seedEvents' = Append(seedEvents, Event("attempt", seedRetry.attempt + 1))
       ELSE /\ seedRetry' = [state |-> "resolved", attempt |-> seedRetry.attempt + 1]
            /\ UNCHANGED <<seedReadyState, seedEvents>>
    /\ UNCHANGED <<inputVars, instanceVars, pc, exit, callVars, serverVars>>
    /\ UNCHANGED <<seedShutdown, seedExit>>

\* .then(() => seedData()): it ends in process.exit(0), or in process.exit(1)
\* from its catch block
SeedData ==
    /\ SeedAlive
    /\ seedRetry.state = "resolved"
    /\ \E code \in {0, 1} : seedExit' = [exited |-> TRUE, code |-> code, by |-> "seedData"]
    /\ UNCHANGED <<inputVars, instanceVars, pc, exit, callVars, serverVars>>
    /\ UNCHANGED <<seedReadyState, seedRetry, seedEvents, seedShutdown>>

\* SIGINT or SIGTERM: the handler calls mongoose.connection.close()
SeedSignal ==
    /\ SeedAlive
    /\ seedRetry.state # "idle"
    /\ seedShutdown = "none"
    /\ seedShutdown' = "closing"
    /\ seedReadyState' = IF seedReadyState = 1 THEN 3 ELSE seedReadyState
    /\ UNCHANGED <<inputVars, instanceVars, pc, exit, callVars, serverVars>>
    /\ UNCHANGED <<seedRetry, seedEvents, seedExit>>

\* close() resolves: process.exit(0); it rejects: the handler has no catch
\* and the process dies of the unhandled rejection
SeedCloseSettles ==
    /\ SeedAlive
    /\ seedShutdown = "closing"
    /\ \E code \in {0, 1} :
          /\ seedExit' = [exited |-> TRUE, code |-> code, by |-> "signal"]
          /\ seedShutdown' = IF code = 0 THEN "closed" ELSE "failed"
          /\ seedReadyState' = IF code = 0 THEN 0 ELSE seedReadyState
    /\ UNCHANGED <<inputVars, instanceVars, pc, exit, callVars, serverVars>>
    /\ UNCHANGED <<seedRetry, seedEvents>>

----------------------------------------------------------------------------
(* Specifications of the processes *)

ServerUri == "mongodb://mongo:27017/bb-db"

ServerEnvironments == {
    ("LOG_LEVEL" :> "debug") @@ ("ENABLE_REQUEST_LOGGING" :> "true"),
    ("LOG_LEVEL" :> "debug") @@ ("ENABLE_REQUEST_LOGGING" :> "true") @@ ("PORT" :> "abc"),
    ("NODE_ENV" :> "production") @@ ("PORT" :> "3000") @@ ("MONGODB_URI" :> ServerUri)
        @@ ("JWT_SECRET" :> "f3a9c1e7b5d2468091a7c3e5b9d1f204")
        @@ ("ENABLE_REQUEST_LOGGING" :> "false") @@ ("DB_SOCKET_TIMEOUT" :> "0"),
    ("NODE_ENV" :> "production") @@ ("PORT" :> "3000") @@ ("MONGODB_URI" :> ServerUri)
        @@ ("JWT_SECRET" :> "f3a9c1e7b5d2468091a7c3e5b9d1f204"),
    ("NODE_ENV" :> "production") @@ ("PORT" :> "3000") @@ ("MONGODB_URI" :> ServerUri)
        @@ ("JWT_SECRET" :> "change-this-secret-in-production") }

ServerFileSystems == {
    NoFile,
    ".env" :> File("NODE_ENV=development\nMONGODB_URI=mongodb://localhost:27017/bb-db\n") }

Init ==
    /\ processEnv \in ServerEnvironments
    /\ fs \in ServerFileSystems
    /\ InstanceInitial /\ ServerInitial /\ SeedInitial

ServerStartup ==
    \/ Construct
    \/ RegisterVars
    \/ LogConfiguration
    \/ ReadSettings
    \/ StartConnectWithRetry
    \/ Listen

ServerConnection ==
    \/ AttemptSucceeds
    \/ AttemptFails
    \/ RetryTimerFires
    \/ ConnectionLost
    \/ ConnectionRestored
    \/ Signal
    \/ CloseResolves
    \/ CloseRejects

ServerQueries ==
    \/ HealthQuery
    \/ HealthPingSettles
    \/ ReadyQuery
    \/ ReadyPingSettles
    \/ LiveQuery

SeedNext ==
    \/ SeedStart
    \/ SeedAttemptSucceeds
    \/ SeedAttemptFails
    \/ SeedTimerFires
    \/ SeedData
    \/ SeedSignal
    \/ SeedCloseSettles

\* the server process
Next == ServerStartup \/ ServerConnection \/ ServerQueries

Spec == Init /\ [][Next]_vars

\* mongoose.connect(..., { socketTimeoutMS: dbSocketTimeout }): the driver
\* gives up a command whose socket stays silent for that long and rejects
\* it; 0 switches the timeout off
DriverBoundsPing ==
    settings.dbSocketTimeout.type = "number" /\ settings.dbSocketTimeout.num > 0

\* the server process, with what is certain to happen: a ping settles when
\* the driver bounds it, and the handler awaiting it then answers
SpecProbe ==
    /\ Init
    /\ [][Next]_vars
    /\ WF_vars(DriverBoundsPing /\ HealthPingSettles)
    /\ WF_vars(DriverBoundsPing /\ ReadyPingSettles)

\* the server process, with what is certain to happen after a signal:
\* mongoose.connection.close() settles, and the handler awaiting it goes on
\* to process.exit
SpecShutdown ==
    /\ Init
    /\ [][Next]_vars
    /\ WF_vars(CloseResolves \/ CloseRejects)

\* the connection sequences of the server and of the seed script
NextRetry == ServerStartup \/ ServerConnection \/ SeedNext

SpecRetry == Init /\ [][NextRetry]_vars

----------------------------------------------------------------------------
(* isInsecureSecret on its own: the specification of its calls *)

MaxPad == 17

RECURSIVE Pad(_, _)
Pad(c, n) == IF n = 0 THEN "" ELSE c \o Pad(c, n - 1)

SecretHeads == {
    "", "dev", "DEV", "Development", "de", "xdev", "test", "Test", "tes",
    "staging", "STAGING", "demo", "Demo", "your-", "YOUR-", "your",
    "change-this", "Change-This", "change-", "replace-with", "REPLACE-WITH",
    "example", "Example", "secret", "SECRET", "password", "Password", "key",
    "KEY", "123", "12", "abc", "ABC", "ab", "f3a9", "-your-" }

\* openssl rand -hex 32 prints 64 hexadecimal digits, the letters in lower case
HexSecretLength == 64

HexDigits == "0123456789abcdef"

HexHeads == {"", "0", "12", "123", "1234", "ab", "abc", "abcd", "de", "dead", "f3a9", "e4"}

\* strings openssl rand -hex 32 can print
HexSecrets ==
    {h \o Pad(c, HexSecretLength - Len(h)) : h \in HexHeads, c \in {"7", "d"}}

SecretSamples ==
    {h \o Pad(c, n) : h \in SecretHeads, c \in {"f", "9"}, n \in 0..MaxPad}
        \cup {"your-secret-here", "f3a9c1e7b5d2468091a7c3e5b9d1f204"}
        \cup HexSecrets

InitSecret ==
    /\ processEnv = EmptyObject
    /\ fs = NoFile
    /\ InstanceInitial /\ ServerInitial /\ SeedInitial

\* the arguments of a call are chosen
SecretCallArguments ==
    /\ secretCall = NoSecretCall
    /\ \E key \in DefaultSecretVars \cup {"API_TOKEN"}, value \in SecretSamples :
          secretCall' = [key |-> key, value |-> value, done |-> FALSE, insecure |-> FALSE]
    /\ UNCHANGED <<inputVars, accessCall, validateCall, environment, requiredVars, secretVars, config,
                   validation, loads,
                   sanitized, pc, exit, serverVars, seedVars>>

\* this.isInsecureSecret(key, value)
IsInsecureSecretCall ==
    /\ secretCall # NoSecretCall
    /\ ~secretCall.done
    /\ secretCall' = [secretCall EXCEPT !.done = TRUE,
                         !.insecure = isInsecureSecret(secretCall.key, secretCall.value)]
    /\ UNCHANGED <<inputVars, accessCall, validateCall, environment, requiredVars, secretVars, config,
                   validation, loads,
                   sanitized, pc, exit, serverVars, seedVars>>

NextSecret == SecretCallArguments \/ IsInsecureSecretCall

SpecSecret == InitSecret /\ [][NextSecret]_vars

----------------------------------------------------------------------------
(* The accessors on their own: the specification of their calls *)

AccessorSamples == {
    "3000", "10", "0", "-5", "+7", "007", " 42", "42 ", "12abc", "3.7", "0x1F",
    "abc", "", " ", "-", "true", "TRUE", "True", " true", "1", "false", "yes",
    "on", "a", "a,b", "a, b ,c", ",a,,b,", " , ", ",",
    "http://localhost:3001,http://localhost:3000" }

AccessorEnvironment(v) ==
    ("NODE_ENV" :> "development") @@ ("MONGODB_URI" :> "mongodb://mongo:27017/bb-db")
        @@ ("PORT" :> v) @@ ("ENABLE_REQUEST_LOGGING" :> v) @@ ("CORS_ORIGINS" :> v)

AccessorEnvironments ==
    {AccessorEnvironment(v) : v \in AccessorSamples}
        \cup {("NODE_ENV" :> "development") @@ ("LOG_LEVEL" :> "debug")
                 @@ ("MONGODB_URI" :> "mongodb://mongo:27017/bb-db")}

AccessorKeys == {"PORT", "ENABLE_REQUEST_LOGGING", "CORS_ORIGINS", "DB_MAX_POOL_SIZE"}

InitAccessor ==
    /\ processEnv \in AccessorEnvironments
    /\ fs = NoFile
    /\ InstanceInitial /\ ServerInitial /\ SeedInitial

AccessCall(method, key, defaultValue, result) ==
    [method |-> method, key |-> key, defaultValue |-> defaultValue, result |-> result]

\* envConfig.get(key, defaultValue)
GetCall ==
    /\ pc = "configured"
    /\ \E key \in AccessorKeys, defaultValue \in {Undefined, Str("info"), Str("0.0.0.0")} :
          accessCall' = AccessCall("get", key, defaultValue,
                                   Returns(get(config, key, defaultValue)))
    /\ UNCHANGED <<inputVars, instanceVars, pc, exit, secretCall, validateCall>>
    /\ UNCHANGED <<serverVars, seedVars>>

\* envConfig.getInt(key, defaultValue)
GetIntCall ==
    /\ pc = "configured"
    /\ \E key \in AccessorKeys, defaultValue \in {Undefined, Num(10), Num(3000)} :
          accessCall' = AccessCall("getInt", key, defaultValue,
                                   getInt(config, key, defaultValue))
    /\ UNCHANGED <<inputVars, instanceVars, pc, exit, secretCall, validateCall>>
    /\ UNCHANGED <<serverVars, seedVars>>

\* envConfig.getBool(key, defaultValue)
GetBoolCall ==
    /\ pc = "configured"
    /\ \E key \in AccessorKeys, defaultValue \in {Undefined, Bool(TRUE), Bool(FALSE)} :
          accessCall' = AccessCall("getBool", key, defaultValue,
                                   getBool(config, key, defaultValue))
    /\ UNCHANGED <<inputVars, instanceVars, pc, exit, secretCall, validateCall>>
    /\ UNCHANGED <<serverVars, seedVars>>

\* envConfig.getArray(key, defaultValue)
GetArrayCall ==
    /\ pc = "configured"
    /\ \E key \in AccessorKeys,
          defaultValue \in {Arr(<<>>), Arr(<<"http://localhost:3001">>)} :
          accessCall' = AccessCall("getArray", key, defaultValue,
                                   getArray(config, key, defaultValue))
    /\ UNCHANGED <<inputVars, instanceVars, pc, exit, secretCall, validateCall>>
    /\ UNCHANGED <<serverVars, seedVars>>

NextAccessor ==
    \/ Construct
    \/ RegisterVars
    \/ LogConfiguration
    \/ GetSanitizedConfig
    \/ GetCall
    \/ GetIntCall
    \/ GetBoolCall
    \/ GetArrayCall

SpecAccessor == InitAccessor /\ [][NextAccessor]_vars

----------------------------------------------------------------------------
(* Properties of the configuration loader and validator *)

Loaded == pc # "start"

\* the file layers loadEnvironmentFiles reads, lowest priority first
ReadLayers ==
    LET names == envFiles(environment)
    IN  [i \in {j \in DOMAIN names : names[j] \in DOMAIN fs /\ fs[names[j]].readable}
            |-> fs[names[i]]]

\* the values the well-formed lines of a file give key K
FileValues(file, K) ==
    LET lines == Split(file.content, "\n")
    IN  {ApplyLine(EmptyObject, lines[i])[K] :
            i \in {j \in DOMAIN lines : K \in DOMAIN ApplyLine(EmptyObject, lines[j])}}

\* C1: a key defined in the process environment resolves to the
\* process-environment value, whatever the file layers give it.
C1_EnvOverridesFiles ==
    Loaded => \A K \in DOMAIN processEnv :
                  K \in DOMAIN config /\ config[K] = processEnv[K]

C1_Witness ==
    /\ Loaded
    /\ \E K \in DOMAIN processEnv : \E i \in DOMAIN ReadLayers :
          /\ FileValues(ReadLayers[i], K) # {}
          /\ processEnv[K] \notin FileValues(ReadLayers[i], K)
          /\ config[K] = processEnv[K]

\* C2 (as claimed): a key absent from the process environment resolves to the
\* value of the highest-priority file layer that defines it, the priority
\* rising from .env through .env.<environment> to .env.local.
C2_HighestFileLayerWins ==
    Loaded => \A K \in DOMAIN config \ DOMAIN processEnv :
                  LET defining == {i \in DOMAIN ReadLayers : FileValues(ReadLayers[i], K) # {}}
                      top == CHOOSE i \in defining : \A j \in defining : j <= i
                  IN  defining # {} => config[K] \in FileValues(ReadLayers[top], K)

\* C4: under the label "production" a non-empty insecure secret makes
\* validation throw; under any other label validation never collects or
\* throws on a secret value.
C4_SecretSafetyByLabel ==
    validation.threw # "not run" =>
        /\ (/\ environment = "production"
            /\ \E key \in secretVars :
                  ~Falsy(config, key) /\ isInsecureSecret(key, config[key]))
              => (validation.threw \in {"missing", "insecure"} /\ pc = "crashed")
        /\ environment # "production"
              => (validation.insecure = {} /\ validation.threw # "insecure"
                  /\ (validation.missing = {} => pc # "crashed"))

C4_Witness ==
    /\ environment = "production"
    /\ validation.threw = "insecure"
    /\ "JWT_SECRET" \in validation.insecure
    /\ pc = "crashed"

\* C6 (as claimed): the sanitized view holds, under no key, the value of a
\* secret key that is non-empty in the map.
C6_NoSecretValueInView ==
    sanitized.called =>
        \A s \in secretVars : ~Falsy(config, s) =>
            \A k \in DOMAIN sanitized.view : sanitized.view[k] # config[s]

\* a case-insensitive prefix of value is word
PrefixIgnoringCase(value, word) ==
    /\ Len(value) >= Len(word)
    /\ ToLowerCase(SubSeq(value, 1, Len(word))) = ToLowerCase(word)

\* C5: isInsecureSecret is true exactly when the value starts, ignoring
\* case, with one of the listed words, equals secret, password or key
\* ignoring case, or is shorter than 16 characters; the key plays no part.
C5_InsecureRules ==
    secretCall.done =>
        LET v == secretCall.value
        IN  /\ secretCall.insecure <=>
                \/ \E w \in {"dev", "development", "test", "staging", "demo"} :
                      PrefixIgnoringCase(v, w)
                \/ \E w \in {"your-", "change-this", "replace-with", "example"} :
                      PrefixIgnoringCase(v, w)
                \/ ToLowerCase(v) \in {"secret", "password", "key"}
                \/ \E w \in {"123", "abc", "test"} : PrefixIgnoringCase(v, w)
                \/ Len(v) < 16
            /\ Len(v) < 16 => secretCall.insecure
            /\ v = "your-secret-here" => secretCall.insecure
            /\ v = "f3a9c1e7b5d2468091a7c3e5b9d1f204" => ~secretCall.insecure

C5_Witness ==
    /\ secretCall.done
    /\ secretCall.value = "Change-This" \o Pad("9", 12)
    /\ Len(secretCall.value) >= 16
    /\ secretCall.insecure

----------------------------------------------------------------------------
(* Properties of startup, the connection sequence and the health queries *)

\* C3 (as claimed): while a key of the application's required set resolves
\* to an absent or empty value, the process has opened no listener and has
\* started no connection attempt.
C3_MissingRequiredStopsStartup ==
    (Loaded /\ \E key \in AppRequiredVars : Falsy(config, key))
        => (~listening /\ events = <<>> /\ retry.state = "idle")

\* what a sequence of n attempts that all fail does: attempt k, its failure
\* and, except after the last, one wait
RECURSIVE AllFailLog(_)
AllFailLog(n) ==
    IF n = 0 THEN <<>>
    ELSE (IF n = 1 THEN <<>> ELSE AllFailLog(n - 1) \o <<Event("wait", n - 1)>>)
            \o <<Event("attempt", n), Event("failed", n)>>

IsPrefix(a, b) == Len(a) <= Len(b) /\ SubSeq(b, 1, Len(a)) = a

NoSuccess(log) == \A i \in DOMAIN log : log[i].kind # "connected"

Count(log, kind) == Cardinality({i \in DOMAIN log : log[i].kind = kind})

ExhaustionIsFatal ==
    /\ Count(events, "failed") = maxRetries
          => (exit.exited /\ exit.code = 1 /\ exit.by = "retry")
    /\ exit.by = "retry" => (exit.code # 0 /\ Count(events, "failed") = maxRetries)
    /\ Count(seedEvents, "failed") = seedMaxRetries
          => (seedExit.exited /\ seedExit.code = 1 /\ seedExit.by = "retry")
    /\ seedExit.by = "retry"
          => (seedExit.code # 0 /\ Count(seedEvents, "failed") = seedMaxRetries)

NothingAfterExit ==
    /\ exit.exited => (events' = events /\ retry' = retry /\ exit' = exit)
    /\ seedExit.exited
          => (seedEvents' = seedEvents /\ seedRetry' = seedRetry /\ seedExit' = seedExit)

\* C8: when the maxRetries-th attempt has failed the process has exited with
\* code 1; the exit for exhaustion happens only with maxRetries failures; and
\* once the process has exited no attempt, wait or exit follows.
C8_ExhaustionExits == []ExhaustionIsFatal /\ [][NothingAfterExit]_vars

C8_Witness ==
    /\ exit = [exited |-> TRUE, code |-> 1, by |-> "retry"]
    /\ Count(events, "failed") = maxRetries
    /\ seedExit = [exited |-> TRUE, code |-> 1, by |-> "retry"]
    /\ Count(seedEvents, "failed") = seedMaxRetries

\* C9 (as claimed): GET /ready answers 200 exactly when the connection state
\* read by the query is 1 (connected), and 503 otherwise.
C9_ReadyIffConnected ==
    ready.state = "answered" =>
        /\ ready.code = 200 <=> ready.dbState = 1
        /\ ready.code \in {200, 503}

\* C9 (amended): GET /ready answers 200 exactly when the connection state
\* read by the query is 1 and the ping issued by the query succeeds, and 503
\* otherwise: in every other state, and when the ping fails.
C9_ReadyIffConnectedAndPinged ==
    /\ ready.state = "answered" =>
          /\ ready.code = 200 <=> (ready.dbState = 1 /\ ready.ping = "ok")
          /\ ready.code \in {200, 503}
          /\ ready.dbState # 1 => ready.ping = "none"
    /\ ready.state = "pinging" => ready.dbState = 1

C9_Witness ==
    /\ ready.state = "answered"
    /\ ready.dbState = 1
    /\ ready.ping = "failed"
    /\ ready.code = 503
    /\ readyState = 1

----------------------------------------------------------------------------
(* Properties of the liveness query *)

\* C11: in every state in which the process is listening and has not exited
\* GET /live can be answered, and every answer it has given is 200 'alive',
\* whatever the connection state (0 disconnected, 1 connected, 2 connecting,
\* 3 disconnecting) the answer was given in.
C11_LiveAlways200 ==
    /\ Serving => ENABLED LiveQuery
    /\ live.state = "answered" =>
          /\ live.code = 200
          /\ live.status = "alive"
          /\ live.dbState \in 0..3

\* /live answered 200 while the second connection attempt was in flight
C11_Witness ==
    /\ live.state = "answered"
    /\ live.code = 200
    /\ live.dbState = 2
    /\ readyState = 2
    /\ retry = [state |-> "attempting", attempt |-> 2]

----------------------------------------------------------------------------
(* Properties of re-running the loader and the validator *)

\* C12: however many times loadEnvironmentFiles has run on the instance with
\* the same files and the same process.env, the map is the one a single run
\* on an empty map builds: a second run changes nothing.
C12_LoadIsIdempotent ==
    loads >= 1 => config = loadEnvironmentFiles(EmptyObject, environment, fs, processEnv)

\* the loader has run twice on a map that holds a key taken from a file and
\* a key taken from process.env
C12_Witness ==
    /\ loads = 2
    /\ \E k \in DOMAIN config : k \notin DOMAIN processEnv
    /\ \E k \in DOMAIN config : k \in DOMAIN processEnv

\* C13: a validateConfiguration call reports a required key as missing
\* exactly when the key is absent from the map or holds the empty string;
\* a key with a non-empty value is never reported.
C13_EmptyCountsAsMissing ==
    validateCall.threw # "not run" =>
        /\ validateCall.missing \subseteq requiredVars
        /\ \A key \in requiredVars :
              key \in validateCall.missing <=>
                  (key \notin DOMAIN config \/ config[key] = "")

\* one required key is empty, one is absent, one has a value
C13_Witness ==
    /\ validateCall.threw = "missing"
    /\ \E key \in validateCall.missing : key \in DOMAIN config /\ config[key] = ""
    /\ \E key \in validateCall.missing : key \notin DOMAIN config
    /\ \E key \in requiredVars \ validateCall.missing : config[key] # ""

----------------------------------------------------------------------------
(* Properties of the typed accessors *)

\* the argument of the call in hand is a key of the map
KeyPresent == accessCall.key \in DOMAIN config

\* an optional sign followed by decimal digits and nothing else
IsIntegerLiteral(s) ==
    LET body == IF Len(s) > 0 /\ At(s, 1) \in {"+", "-"} THEN SubSeq(s, 2, Len(s)) ELSE s
    IN  Len(body) > 0 /\ \A i \in 1..Len(body) : IsDigit(At(body, i))

LiteralValue(s) ==
    IF At(s, 1) = "-" THEN 0 - DigitsValue(SubSeq(s, 2, Len(s)))
    ELSE IF At(s, 1) = "+" THEN DigitsValue(SubSeq(s, 2, Len(s)))
    ELSE DigitsValue(s)

HasNoDigit(s) == \A i \in 1..Len(s) : ~IsDigit(At(s, i))

\* C14: getInt never throws and never returns NaN; it returns the default
\* when the key is absent or its value holds no digit at all, and the
\* integer itself when the value is an integer literal.  (A value such as
\* "12abc", of which only a prefix is an integer, is left open here.)
C14_GetIntFallsBack ==
    accessCall.method = "getInt" =>
        /\ accessCall.result.threw = "none"
        /\ accessCall.result.value.type # "NaN"
        /\ ~KeyPresent => accessCall.result.value = accessCall.defaultValue
        /\ KeyPresent /\ HasNoDigit(config[accessCall.key])
              => accessCall.result.value = accessCall.defaultValue
        /\ KeyPresent /\ IsIntegerLiteral(config[accessCall.key])
              => accessCall.result.value = Num(LiteralValue(config[accessCall.key]))

\* C15: getBool never throws; for a key that is present it returns whether
\* the lower-cased value is "true" or "1", and for an absent key it returns
\* the default, be the default undefined, true or false.
C15_GetBoolDefault ==
    accessCall.method = "getBool" =>
        /\ accessCall.result.threw = "none"
        /\ KeyPresent =>
              accessCall.result.value =
                  Bool(ToLowerCase(config[accessCall.key]) \in {"true", "1"})
        /\ ~KeyPresent => accessCall.result.value = accessCall.defaultValue

Commas(s) == {i \in 1..Len(s) : At(s, i) = ","}

\* the position of the k-th comma of s, with 0 before the first and
\* Len(s) + 1 after the last
Cut(s, k) ==
    IF k = 0 THEN 0
    ELSE IF k > Cardinality(Commas(s)) THEN Len(s) + 1
    ELSE CHOOSE i \in Commas(s) : Cardinality({j \in Commas(s) : j < i}) = k - 1

\* the text between the commas, in order, trimmed
TrimmedFields(s) ==
    [k \in 1..(Cardinality(Commas(s)) + 1) |->
        Trim(SubSeq(s, Cut(s, k - 1) + 1, Cut(s, k) - 1))]

\* C16: getArray returns the default when the key is absent or holds the
\* empty string; otherwise it returns the texts between the commas of the
\* value, each trimmed, in their order, without the empty ones.
C16_GetArraySplits ==
    accessCall.method = "getArray" =>
        /\ accessCall.result.threw = "none"
        /\ IF ~KeyPresent \/ config[accessCall.key] = ""
           THEN accessCall.result.value = accessCall.defaultValue
           ELSE accessCall.result.value =
                    Arr(SelectSeq(TrimmedFields(config[accessCall.key]),
                                  LAMBDA item : item # ""))

\* a value with empty elements and padded elements has been split
C16_Witness ==
    /\ accessCall.method = "getArray"
    /\ KeyPresent
    /\ config[accessCall.key] = "a, b ,c"
    /\ accessCall.result.value = Arr(<<"a", "b", "c">>)
    /\ processEnv["PORT"] = "a, b ,c"

\* C17: once validation has succeeded, no step of get, getInt, getBool,
\* getArray, require, secrets, getSanitizedConfig or logConfiguration
\* changes the map.
C17_ConfigFrozenAfterValidation ==
    [][validation.threw = "none" => config' = config]_vars

\* after validation the keys were registered, the sanitized view was built
\* with a masked secret, and an accessor was called; the map still holds
\* the secret itself
C17_Witness ==
    /\ validation.threw = "none"
    /\ requiredVars = AppRequiredVars
    /\ sanitized.called
    /\ sanitized.view["MONGODB_URI"] = Mask
    /\ config["MONGODB_URI"] = "mongodb://mongo:27017/bb-db"
    /\ accessCall.method = "getBool"
    /\ config = processEnv

----------------------------------------------------------------------------
(* Properties of the order of startup and of the probes *)

\* C18: the listener is open or a connection attempt has been made only
\* after validateConfiguration has returned without throwing; when it has
\* thrown, the process has exited and no listener and no attempt exists,
\* in that state and in every later one.
C18_ValidationFirst ==
    /\ (listening \/ events # <<>> \/ retry.state # "idle" \/ settings.read)
          => validation.threw = "none"
    /\ validation.threw \in {"missing", "insecure"}
          => /\ exit = [exited |-> TRUE, code |-> 1, by |-> "config"]
             /\ ~listening
             /\ events = <<>>
             /\ retry.state = "idle"

\* under the production label, with its secrets checked, the process
\* listens and has made its first connection attempt
C18_Witness ==
    /\ environment = "production"
    /\ validation.threw = "none"
    /\ listening
    /\ events # <<>>
    /\ ~exit.exited

\* while the connection state is not 1 a query gets 503, whatever the
\* previous answer was
FreshReadyAnswer ==
    (Serving /\ ready.state # "pinging" /\ readyState # 1)
        => /\ ENABLED (ReadyQuery /\ ready'.state = "answered" /\ ready'.code = 503)
           /\ ~ENABLED (ReadyQuery /\ ~(ready'.state = "answered" /\ ready'.code = 503))

\* what a step that changes the readiness record does
ReadyStep ==
    ready' # ready =>
          IF ready.state = "pinging"
          THEN /\ ready'.state = "answered"
               /\ ready'.dbState = ready.dbState
               /\ ready'.ping \in {"ok", "failed"}
               /\ ready'.code = IF ready'.ping = "ok" THEN 200 ELSE 503
          ELSE IF readyState = 1
          THEN ready'.state = "pinging" /\ ready'.dbState = 1
          ELSE /\ ready'.state = "answered"
               /\ ready'.code = 503
               /\ ready'.dbState = readyState
               /\ ready'.ping = "none"

\* C19: a GET /ready query that begins while the connection state is not 1
\* is answered 503 at once, whatever the previous answer was; one that
\* begins in state 1 issues a new ping; and the answer after a ping follows
\* from the state the query read and the outcome of its own ping.
C19_ReadinessNotCached == []FreshReadyAnswer /\ [][ReadyStep]_vars

\* the connection had been made and was lost, and the query that began
\* after that was answered 503 without a ping
C19_Witness ==
    /\ ready.state = "answered"
    /\ ready.code = 503
    /\ ready.dbState = 0
    /\ ready.ping = "none"
    /\ readyState = 0
    /\ retry.state = "resolved"
    /\ \E i \in DOMAIN events : events[i].kind = "connected"

\* C20 (as claimed): every GET /health and every GET /ready query whose
\* ping is under way is answered in the end, unless the process exits
\* first.
C20_ProbeAnswers ==
    /\ (health.state = "pinging") ~> (health.state = "answered" \/ exit.exited)
    /\ (ready.state = "pinging") ~> (ready.state = "answered" \/ exit.exited)

----------------------------------------------------------------------------
(* Properties of the queries beside the retry loop and the signals *)

RetryUnderWay == retry.state \in {"attempting", "waiting"}

\* C21: in every state in which the process listens and connectWithRetry
\* has an attempt in flight or waits between two attempts, GET /live can be
\* answered 200 and GET /health and GET /ready can be answered 503, each in
\* one step that leaves the retry sequence where it is.
C21_QueriesDuringRetry ==
    (listening /\ ~exit.exited /\ RetryUnderWay) =>
        /\ ENABLED (LiveQuery /\ live'.state = "answered" /\ live'.code = 200
                      /\ retry' = retry)
        /\ ENABLED (HealthQuery /\ health'.state = "answered" /\ health'.code = 503
                      /\ retry' = retry)
        /\ ENABLED (ReadyQuery /\ ready'.state = "answered" /\ ready'.code = 503
                      /\ retry' = retry)

\* the three queries were answered during the wait after the first failed
\* attempt: the state they read, 0, exists only from that failure on
C21_Witness ==
    /\ listening /\ ~exit.exited
    /\ retry = [state |-> "waiting", attempt |-> 1]
    /\ live.state = "answered" /\ live.code = 200 /\ live.dbState = 0
    /\ health.state = "answered" /\ health.code = 503 /\ health.dbState = 0
    /\ ready.state = "answered" /\ ready.code = 503 /\ ready.dbState = 0

----------------------------------------------------------------------------
(* Properties of secrets made as the documentation prescribes *)

IsHexSecret(value) ==
    /\ Len(value) = HexSecretLength
    /\ \A i \in 1..Len(value) : IndexOf(HexDigits, At(value, i)) # 0

\* C22 (as claimed): isInsecureSecret classifies no string of 64 hexadecimal
\* digits as insecure.
C22_HexSecretIsSecure ==
    (secretCall.done /\ IsHexSecret(secretCall.value)) => ~secretCall.insecure

----------------------------------------------------------------------------
(* Properties of the order of registration and validation *)

\* C23 (as claimed): the required set and the secret set change only while
\* validateConfiguration has not run yet.
C23_RegistrationBeforeValidation ==
    [][(requiredVars' # requiredVars \/ secretVars' # secretVars)
          => validation.threw = "not run"]_vars

----------------------------------------------------------------------------
(* Properties of the file layers before the overlay of process.env *)

\* the map the file layers build, before process.env is spread over it
FileLayerMap == LoadEach(EmptyObject, fs, envFiles(environment))

\* the indices of the lines of a file that assign key K
AssigningLines(file, K) ==
    LET lines == Split(file.content, "\n")
    IN  {j \in DOMAIN lines : K \in DOMAIN ApplyLine(EmptyObject, lines[j])}

\* the value the first line of a file that assigns K gives it
FirstFileValue(file, K) ==
    LET lines == Split(file.content, "\n")
        first == CHOOSE j \in AssigningLines(file, K) :
                     \A l \in AssigningLines(file, K) : j <= l
    IN  ApplyLine(EmptyObject, lines[first])[K]

DefiningLayers(K) == {i \in DOMAIN ReadLayers : AssigningLines(ReadLayers[i], K) # {}}

\* C24: in the map built from the files, a key holds the value of the first
\* line that assigns it in the first file layer read that assigns it; no
\* later line and no later layer changes it, and the map has no other key.
C24_FirstAppliedWins ==
    Loaded =>
        /\ \A K \in DOMAIN FileLayerMap :
              /\ DefiningLayers(K) # {}
              /\ LET first == CHOOSE i \in DefiningLayers(K) :
                                  \A j \in DefiningLayers(K) : i <= j
                 IN  FileLayerMap[K] = FirstFileValue(ReadLayers[first], K)
        /\ \A K \in DOMAIN config \ DOMAIN processEnv :
              K \in DOMAIN FileLayerMap /\ config[K] = FileLayerMap[K]

\* a key that a later layer assigns differently, and a key that a later
\* line of the same file assigns differently, both kept their first value
C24_Witness ==
    /\ Loaded
    /\ \E K \in DOMAIN config \ DOMAIN processEnv : \E i, j \in DefiningLayers(K) :
          /\ i < j
          /\ FirstFileValue(ReadLayers[j], K) # FirstFileValue(ReadLayers[i], K)
          /\ config[K] = FirstFileValue(ReadLayers[i], K)
    /\ \E K \in DOMAIN config \ DOMAIN processEnv : \E i \in DefiningLayers(K) :
          /\ Cardinality(FileValues(ReadLayers[i], K)) > 1
          /\ config[K] = FirstFileValue(ReadLayers[i], K)

----------------------------------------------------------------------------
(* Properties of a connection sequence that succeeds *)

Succeeded(log) == \E i \in DOMAIN log : log[i].kind = "connected"

\* what a sequence does whose k-th attempt is the first to succeed
SuccessLog(k) ==
    (IF k = 1 THEN <<>> ELSE AllFailLog(k - 1) \o <<Event("wait", k - 1)>>)
        \o <<Event("attempt", k), Event("connected", k)>>

\* the log of a sequence that has succeeded ends with the success at some
\* attempt k within the limit, and holds k attempts and k - 1 waits
EndsWithSuccess(log, limit) ==
    LET k == log[Len(log)].n
    IN  /\ log[Len(log)].kind = "connected"
        /\ k \in 1..limit
        /\ log = SuccessLog(k)
        /\ Count(log, "attempt") = k
        /\ Count(log, "failed") = k - 1
        /\ Count(log, "wait") = k - 1
        /\ Count(log, "connected") = 1

\* C25: once an attempt has succeeded, in that state and in every later one
\* the sequence is resolved and its log is the k attempts, k - 1 failures
\* and k - 1 waits that lead to the success at attempt k, with nothing after
\* the success; and a resolved sequence has succeeded.
C25_SuccessAtAttemptK ==
    /\ Succeeded(events) => (retry.state = "resolved" /\ EndsWithSuccess(events, maxRetries))
    /\ retry.state = "resolved" => Succeeded(events)
    /\ Succeeded(seedEvents)
          => (seedRetry.state = "resolved" /\ EndsWithSuccess(seedEvents, seedMaxRetries))
    /\ seedRetry.state = "resolved" => Succeeded(seedEvents)

\* the server connected at its third attempt and the connection has gone
\* since, with no further attempt; the seed script connected at its last
\* attempt
C25_Witness ==
    /\ events = SuccessLog(3)
    /\ retry = [state |-> "resolved", attempt |-> 3]
    /\ readyState = 0
    /\ seedEvents = SuccessLog(seedMaxRetries)
    /\ seedRetry.state = "resolved"

----------------------------------------------------------------------------
(* Properties of the loader on bad input *)

\* the keys the well-formed lines of the readable file layers assign
FileKeys(file) ==
    LET lines == Split(file.content, "\n")
    IN  UNION {DOMAIN ApplyLine(EmptyObject, lines[j]) : j \in DOMAIN lines}

\* C26 (as claimed): whatever lines are malformed and whatever files are
\* missing or unreadable, the constructor gets through loading, every key
\* that a well-formed line of a readable file layer assigns is in the map,
\* and so is every key of process.env, with its process.env value.
C26_LoadingNeverAborts ==
    Loaded =>
        /\ \A i \in DOMAIN ReadLayers : FileKeys(ReadLayers[i]) \subseteq DOMAIN config
        /\ \A K \in DOMAIN processEnv : K \in DOMAIN config /\ config[K] = processEnv[K]

-----------------------------------------------------------------------------
(* Properties of quote stripping *)

QuoteCharacters == {"\"", "'"}

\* a value that begins and ends with the same quote character, as two
\* distinct characters, loses exactly those two; any other value is kept
StripOnePair(v) ==
    IF Len(v) >= 2 /\ At(v, 1) \in QuoteCharacters /\ At(v, Len(v)) = At(v, 1)
    THEN SubSeq(v, 2, Len(v) - 1)
    ELSE v

\* the text after the first "=" of the first line of a file that assigns K
FirstRawValue(file, K) ==
    LET lines == Split(file.content, "\n")
        first == CHOOSE j \in AssigningLines(file, K) :
                     \A l \in AssigningLines(file, K) : j <= l
    IN  MatchValue(Trim(lines[first]))

\* C27: the value a file gives a key is the trimmed text after "=", with one
\* matching pair of surrounding quotes removed when the text begins and ends
\* with the same quote character as two distinct characters; a value with
\* mismatched quotes and a lone quote character are stored unchanged.
C27_OnePairStripped ==
    Loaded =>
        \A K \in DOMAIN FileLayerMap :
            LET first == CHOOSE i \in DefiningLayers(K) :
                             \A j \in DefiningLayers(K) : i <= j
            IN  FileLayerMap[K] = StripOnePair(Trim(FirstRawValue(ReadLayers[first], K)))

-----------------------------------------------------------------------------
(* Properties of a failing health probe *)

\* the handler of a query ran into an error: the connection was up and the
\* ping did not succeed, or the snapshot could not be built
ProbeFailed(q) == q.state = "answered" /\ q.dbState = 1 /\ q.ping # "ok"

\* a failed query was answered 503, and a process that serves takes the next
\* query of each kind
ProbeFailureAnswered ==
    /\ ProbeFailed(health) => health.code = 503 /\ health.status = "unhealthy"
    /\ ProbeFailed(ready) => ready.code = 503 /\ ready.status = "not ready"
    /\ (Serving /\ (ProbeFailed(health) \/ ProbeFailed(ready))) =>
          /\ ENABLED (HealthQuery \/ HealthPingSettles)
          /\ ENABLED (ReadyQuery \/ ReadyPingSettles)
          /\ ENABLED LiveQuery

\* the step that ends a query ends it with an answer and leaves the process
\* as it was
ProbeFailureStep ==
    /\ (health.state = "pinging" /\ (health' # health \/ (exit' # exit /\ exit'.by # "signal"))) =>
          health'.state = "answered" /\ exit' = exit /\ pc' = pc /\ listening' = listening
    /\ (ready.state = "pinging" /\ (ready' # ready \/ (exit' # exit /\ exit'.by # "signal"))) =>
          ready'.state = "answered" /\ exit' = exit /\ pc' = pc /\ listening' = listening
    /\ ((~ProbeFailed(health) /\ ProbeFailed(health')) \/ (~ProbeFailed(ready) /\ ProbeFailed(ready'))) =>
          exit' = exit /\ pc' = pc /\ listening' = listening

\* C28: an error raised while GET /health or GET /ready is handled (a
\* rejected ping, or an exception while the snapshot is built) is answered
\* with 503; it never ends the process, which keeps taking queries.
C28_ProbeFailureIsAnswered == []ProbeFailureAnswered /\ [][ProbeFailureStep]_vars

\* both kinds of error have been answered 503 by a process that still serves
C28_Witness ==
    /\ Serving
    /\ ProbeFailed(ready) /\ ready.ping = "failed" /\ ready.code = 503
    /\ ProbeFailed(health) /\ health.ping = "none" /\ health.code = 503
    /\ live.state = "answered"

-----------------------------------------------------------------------------
(* Properties of the environment label *)

\* get('NODE_ENV'), the value server.js compares with 'production'
ResolvedEnvironment == IF "NODE_ENV" \in DOMAIN config THEN config["NODE_ENV"] ELSE ""

\* C29: whenever the resolved value of NODE_ENV is "production", also when
\* only a file layer supplies it, validation has applied the production
\* secret check: every non-empty insecure secret was collected, and
\* validation threw when there was one.
C29_LabelAgreesWithResolved ==
    (validation.threw # "not run" /\ ResolvedEnvironment = "production") =>
        LET insecure == {key \in secretVars :
                            ~Falsy(config, key) /\ isInsecureSecret(key, config[key])}
        IN  /\ insecure \subseteq validation.insecure
            /\ insecure # {} => validation.threw \in {"missing", "insecure"}

-----------------------------------------------------------------------------
(* Properties of termination signals during the connection sequence *)

\* a signal finds its handler whatever connectWithRetry is doing, and the
\* exit code of a shutdown tells how the close ended
SignalHandled ==
    /\ (Alive /\ shutdown = "none") => ENABLED Signal
    /\ shutdown = "closed" => exit = [exited |-> TRUE, code |-> 0, by |-> "signal"]
    /\ shutdown = "failed" => exit = [exited |-> TRUE, code |-> 1, by |-> "signal"]
    /\ exit.by = "signal" => shutdown \in {"closed", "failed"}

\* after the exit of a shutdown the connection sequence does nothing more
QuietAfterShutdown ==
    exit.by = "signal" =>
        /\ retry' = retry /\ events' = events
        /\ readyState' = readyState /\ shutdown' = shutdown

\* C30: a SIGTERM or SIGINT is handled whenever it arrives, also while an
\* attempt is in flight or the wait between attempts is under way: the
\* handler closes the connection and the process eventually exits, with
\* code 0 when the close succeeded and 1 when it failed, and no attempt
\* starts after the exit.
C30_SignalDuringRetries ==
    /\ []SignalHandled
    /\ [][QuietAfterShutdown]_vars
    /\ (shutdown = "closing") ~> exit.exited

\* a signal that arrived during the wait after a failed attempt ended in a
\* clean exit, with the sequence left in its wait
C30_Witness ==
    /\ exit = [exited |-> TRUE, code |-> 0, by |-> "signal"]
    /\ shutdown = "closed"
    /\ retry.state = "waiting"
    /\ Count(events, "failed") >= 1

====
